---- MODULE Spec2Model ----
(***************************************************************************)
(* Model of the optimisation core of the repository:                       *)
(*   src/src/training_state.py  TrainingState (init, update, tree_flatten, *)
(*                              tree_unflatten)                            *)
(*   src/src/ops/drq.py         drq (critic_loss_fn, loss_fn, step)        *)
(*   src/src/config.py          CoderConfig                                *)
(* A call that raises leaves the caller with the state it passed in and    *)
(* with no returned value; a call that returns hands the caller the new    *)
(* state, which the next call receives.                                    *)
(***************************************************************************)
EXTENDS Integers, Sequences, FiniteSets, TLC

VARIABLES
    cfg,       \* CoderConfig that drq(cfg, networks) closed over
    state,     \* the TrainingState the caller holds
    last,      \* the most recent call: op, its arguments, "ok" or the exception
    ret,       \* <<value>> returned by the most recent call, <<>> if it raised
    consumed,  \* PRNG keys the most recent step split or drew from, in order,
               \* and whether that step returned
    used,      \* PRNG keys consumed by earlier steps whose state was passed on
    evals,     \* per sample, the network evaluations of loss_fn in that step
    flat,      \* <<(children, aux)>> of the most recent tree_flatten
    saved,     \* <<the state that was flattened>>
    restored   \* <<the state tree_unflatten rebuilt>>

vars == <<cfg, state, last, ret, consumed, used, evals, flat, saved, restored>>

(***************************************************************************)
(* Bounds of the model.                                                    *)
(***************************************************************************)
MaxSeed == 1
MaxParam == 1
MaxBatch == 2
MaxEnsemble == 2
MaxPeriod == 3
MaxReward == 1
MaxStep == 3
RhoDen == 2

(***************************************************************************)
(* Values.                                                                 *)
(***************************************************************************)

\* hk.Params: a mapping from parameter names to tensors (here one integer
\* each); the empty mapping is a legal Python value.
ParamDomains == {{}, {"w"}, {"w", "b"}}

ParamVals == 0..MaxParam

ParamTrees == UNION {[D -> ParamVals] : D \in ParamDomains}

\* jax.random.PRNGKey(seed): a key is the path of split indices from its seed.
PRNGKey(seed) == <<seed>>

Seeds == 0..MaxSeed

\* target_update_var: float | int.  An int N is [kind |-> "int", val |-> N];
\* a float rho is [kind |-> "float", val |-> num], meaning num / RhoDen.
IntVars == {[kind |-> "int", val |-> n] : n \in {0, 1, MaxPeriod}}

FloatVars == {[kind |-> "float", val |-> n] : n \in 0..(RhoDen + 1)}

TargetUpdateVars == IntVars \cup FloatVars

\* optax.GradientTransformation: the pair (init, update); two optimisers.
Optims == {"sgd", "trace"}

\* isinstance(x, int)
isinstance_int(x) == x.kind = "int"

\* The fields of the NamedTuple: the only attributes an instance has data for.
Fields == {"params", "target_params", "opt_state", "rng", "tx",
           "target_update_var", "step"}

\* hasattr(self, name): a NamedTuple instance has no __dict__.
HasAttr(name) == name \in Fields

\* getattr(self, name), defined when HasAttr(name).
GetAttr(self, name) == self[name]

(***************************************************************************)
(* optax, as TrainingState uses it.                                        *)
(***************************************************************************)

\* optim.init(params)
optim_init(optim, params) ==
    IF optim = "trace" THEN [k \in DOMAIN params |-> 0]
    ELSE [k \in {} |-> 0]

\* optim.update, stored in the state as tx
optim_update(optim) == optim

\* self.tx(grads, opt_state, params=params) -> (updates, opt_state)
tx_apply(tx, grads, opt_state, params) ==
    IF tx = "trace"
    THEN LET t == [k \in DOMAIN grads |-> grads[k] + opt_state[k]]
         IN [updates |-> [k \in DOMAIN grads |-> 0 - t[k]], opt_state |-> t]
    ELSE [updates |-> [k \in DOMAIN grads |-> 0 - grads[k]],
          opt_state |-> opt_state]

\* optax.apply_updates(params, updates)
apply_updates(params, updates) ==
    [k \in DOMAIN params |-> params[k] + updates[k]]

\* jnp.mod(a, b) on integers
jnp_mod(a, b) == IF b = 0 THEN a ELSE a % b

\* optax.periodic_update(new_tensors, old_tensors, steps, update_period)
periodic_update(new_tensors, old_tensors, steps, update_period) ==
    IF jnp_mod(steps, update_period) = 0 THEN new_tensors ELSE old_tensors

\* optax.incremental_update(new_tensors, old_tensors, step_size):
\* step_size * new + (1 - step_size) * old, in fixed point (rounded toward
\* minus infinity, the float rounding of the tensors).
incremental_update(new_tensors, old_tensors, step_size) ==
    [k \in DOMAIN new_tensors |->
        (step_size * new_tensors[k]
            + (RhoDen - step_size) * old_tensors[k]) \div RhoDen]

(***************************************************************************)
(* TrainingState.                                                          *)
(***************************************************************************)

\* The outcome of a call: how it ended and, if it returned, what it returned.
Returned(v) == [outcome |-> "ok", out |-> <<v>>]

Raised(e) == [outcome |-> e, out |-> <<>>]

\* TrainingState.init
init(rng, params, optim, target_update_var) ==
    Returned([params |-> params,
              target_params |-> params,
              opt_state |-> optim_init(optim, params),
              rng |-> rng,
              tx |-> optim_update(optim),
              target_update_var |-> target_update_var,
              step |-> 0])

\* TrainingState.update
update(self, grads) ==
    LET r == tx_apply(self.tx, grads, self.opt_state, self.params)
        params == apply_updates(self.params, r.updates)
    IN IF ~HasAttr("target_update_var_var")
       THEN Raised("AttributeError")
       ELSE LET v == GetAttr(self, "target_update_var_var")
                target_params ==
                    IF isinstance_int(v)
                    THEN periodic_update(params, self.target_params,
                                         self.step, v.val)
                    ELSE incremental_update(params, self.target_params, v.val)
            IN Returned([self EXCEPT !.params = params,
                                     !.target_params = target_params,
                                     !.opt_state = r.opt_state,
                                     !.step = self.step + 1])

\* tree_flatten with target_params left out of the children: params twice
tree_flatten_dup(self) ==
    [children |-> <<self.params, self.params, self.opt_state, self.rng>>,
     aux |-> <<self.tx, self.target_update_var, self.step>>]

\* TrainingState.tree_flatten
tree_flatten(self) ==
    [children |-> <<self.params, self.target_params, self.opt_state, self.rng>>,
     aux |-> <<self.tx, self.target_update_var, self.step>>]

\* cls(*args): the NamedTuple constructor, positional in declaration order
cls(args) ==
    [params |-> args[1],
     target_params |-> args[2],
     opt_state |-> args[3],
     rng |-> args[4],
     tx |-> args[5],
     target_update_var |-> args[6],
     step |-> args[7]]

\* TrainingState.tree_unflatten
tree_unflatten(aux, children) == cls(children \o aux)

(***************************************************************************)
(* drq: the configuration it closes over.                                  *)
(***************************************************************************)

\* CoderConfig, the fields drq reads that decide shapes and key counts.
\* The defaults are drq_batch_size = 256, ensemble_size = 10, num_critics = 2.
Configs ==
    [drq_batch_size : 1..MaxBatch,
     ensemble_size : 1..MaxEnsemble,
     num_critics : 1..MaxEnsemble]

\* types.Trajectory: one transition per sample, here its reward.
Batches(c) == [1..c.drq_batch_size -> 0..MaxReward]

\* jax.random.split(key, num): num keys, each the parent's path extended by
\* its index; rngs[-1] is rngs[num].
split(key, num) == [i \in 1..num |-> Append(key, i)]

Range(f) == {f[i] : i \in DOMAIN f}

(***************************************************************************)
(* Shapes of arrays: a sequence of dimensions, <<>> for a scalar.          *)
(***************************************************************************)
Scalar == <<>>

Rank(shape) == Len(shape)

\* target_value[jnp.newaxis]
newaxis(shape) == <<1>> \o shape

\* numpy broadcasting of two shapes of rank at most 1
Broadcast(s1, s2) ==
    IF Rank(s1) = 0 THEN s2
    ELSE IF Rank(s2) = 0 THEN s1
    ELSE IF s1[1] = 1 THEN s2 ELSE s1

(***************************************************************************)
(* networks: pure functions of (params, inputs); an evaluation is recorded *)
(* by the network, the argument of loss_fn that supplied its parameters    *)
(* and the names of its inputs.                                            *)
(***************************************************************************)
Arg(name, val) == [arg |-> name, val |-> val]

Eval(net, p, inputs) == [net |-> net, arg |-> p.arg, inputs |-> inputs]

\* networks.make_state(params, obs)
make_state(p, obs) == Eval("make_state", p, <<obs>>)

\* networks.actor(params, state)
actor(p, s) == Eval("actor", p, <<s>>)

\* networks.critic(params, state, action): one value per ensemble member
critic(p, s, a) == Eval("critic", p, <<s, a>>)

critic_shape(c) == <<c.ensemble_size>>

\* drq.critic_loss_fn: the shape of jnp.square(value - target_value[newaxis])
critic_loss_fn(value, target_value) ==
    IF Rank(value) = 1 /\ Rank(target_value) = 0
    THEN Returned(Broadcast(value, newaxis(target_value)))
    ELSE Raised("AssertionError")

\* drq.loss_fn for one sample
loss_fn(c, params, target_params, rng, r_t) ==
    LET rngs == split(rng, 4)
        s_tm1 == make_state(params, "o_tm1")
        s_t == make_state(target_params, "o_t")
        policy_t == actor(params, "s_t")
        q_t == critic(target_params, "s_t", "a_t")
        q_tm1 == critic(params, "s_tm1", "a_tm1")
        critic_loss == critic_loss_fn(critic_shape(c), Scalar)
        body == [s_tm1 |-> s_tm1, s_t |-> s_t, policy_t |-> policy_t,
                 min_q_t |-> q_t, q_tm1 |-> q_tm1, actor_q |-> q_t,
                 aug_tm1 |-> rngs[1], aug_t |-> rngs[2],
                 sample |-> rngs[3], choice |-> rngs[4], reward |-> r_t,
                 loss_shape |-> Broadcast(critic_loss.out[1], Scalar)]
    IN IF c.num_critics > c.ensemble_size
       THEN [outcome |-> "ValueError", shape |-> Scalar,
             uses |-> <<rng, rngs[1], rngs[2], rngs[3]>>, body |-> body]
       ELSE [outcome |-> critic_loss.outcome,
             shape |-> body.loss_shape,
             uses |-> <<rng, rngs[1], rngs[2], rngs[3], rngs[4]>>,
             body |-> body]

RECURSIVE Flatten(_)
Flatten(ss) == IF ss = <<>> THEN <<>> ELSE Head(ss) \o Flatten(Tail(ss))

RECURSIVE SumSeq(_)
SumSeq(xs) == IF xs = <<>> THEN 0 ELSE Head(xs) + SumSeq(Tail(xs))

\* jnp.mean(t, 0) of the per-sample gradients; the gradient of one sample
\* stands for the networks' and is its reward in every parameter.
mean_grads(params, batch) ==
    [k \in DOMAIN params |-> SumSeq(batch) \div Len(batch)]

\* jax.grad(loss_fn, has_aux=True): defined for scalar-output functions only
grad_check(shape) == shape = Scalar

\* drq.step
step(c, st, batch) ==
    LET B == c.drq_batch_size
        rngs == split(st.rng, B + 1)
        out == [b \in 1..B |->
                   loss_fn(c, Arg("params", st.params),
                           Arg("target_params", st.target_params),
                           rngs[b], batch[b])]
        uses == <<st.rng>> \o Flatten([b \in 1..B |-> out[b].uses])
        bodies == [b \in 1..B |-> out[b].body]
        failed == {b \in 1..B : out[b].outcome # "ok"}
        u == update(st, mean_grads(st.params, batch))
        res == IF failed # {}
               THEN Raised(out[CHOOSE b \in failed : TRUE].outcome)
               ELSE IF \E b \in 1..B : ~grad_check(out[b].shape)
               THEN Raised("TypeError")
               ELSE IF u.outcome # "ok"
               THEN Raised(u.outcome)
               ELSE Returned([u.out[1] EXCEPT !.rng = rngs[B + 1]])
    IN [outcome |-> res.outcome, out |-> res.out, uses |-> uses,
        evals |-> bodies, carry |-> rngs[B + 1]]

(***************************************************************************)
(* The state machine: a caller holding one TrainingState.                  *)
(***************************************************************************)
ValidParams(params) == DOMAIN params # {}

ValidVar(v) ==
    IF isinstance_int(v) THEN v.val > 0 ELSE v.val > 0 /\ v.val <= RhoDen

Invalid(params, v) == ~ValidParams(params) \/ ~ValidVar(v)

Grads(params) == [DOMAIN params -> 0..1]

Init ==
    /\ cfg \in Configs
    /\ \E seed \in Seeds, params \in ParamTrees, optim \in Optims,
          v \in TargetUpdateVars :
          /\ ~Invalid(params, v)
          /\ state = init(PRNGKey(seed), params, optim, v).out[1]
          /\ last = [op |-> "init", outcome |-> "ok",
                     args |-> <<PRNGKey(seed), params, optim, v>>]
          /\ ret = <<state>>
    /\ consumed = [keys |-> <<>>, returned |-> FALSE]
    /\ used = {}
    /\ evals = <<>>
    /\ flat = <<>>
    /\ saved = <<>>
    /\ restored = <<>>

\* state = TrainingState.init(rng, params, optim, target_update_var)
CallInit ==
    \E seed \in Seeds, params \in ParamTrees, optim \in Optims,
       v \in TargetUpdateVars :
       LET r == init(PRNGKey(seed), params, optim, v)
       IN /\ last' = [op |-> "init", outcome |-> r.outcome,
                      args |-> <<PRNGKey(seed), params, optim, v>>]
          /\ ret' = r.out
          /\ state' = IF r.outcome = "ok" THEN r.out[1] ELSE state
          /\ consumed' = [keys |-> <<>>, returned |-> FALSE]
          /\ used' = {}
          /\ evals' = <<>>
          /\ flat' = <<>>
          /\ saved' = <<>>
          /\ restored' = <<>>
          /\ UNCHANGED cfg

\* state = state.update(grads)
CallUpdate ==
    /\ state.step < MaxStep
    /\ \E grads \in Grads(state.params) :
          LET r == update(state, grads)
          IN /\ last' = [op |-> "update", outcome |-> r.outcome,
                         args |-> <<state, grads>>]
             /\ ret' = r.out
             /\ state' = IF r.outcome = "ok" THEN r.out[1] ELSE state
    /\ UNCHANGED <<cfg, consumed, used, evals, flat, saved, restored>>

\* state, metrics = step(state, batch)
CallStep ==
    /\ state.step < MaxStep
    /\ \E batch \in Batches(cfg) :
          LET r == step(cfg, state, batch)
          IN /\ last' = [op |-> "step", outcome |-> r.outcome,
                         args |-> <<state, batch>>]
             /\ ret' = r.out
             /\ state' = IF r.outcome = "ok" THEN r.out[1] ELSE state
             /\ consumed' = [keys |-> r.uses, returned |-> r.outcome = "ok"]
             /\ used' = IF consumed.returned
                        THEN used \cup Range(consumed.keys)
                        ELSE used
             /\ evals' = r.evals
    /\ UNCHANGED <<cfg, flat, saved, restored>>

\* children, aux = state.tree_flatten()
CallTreeFlatten ==
    /\ flat' = <<tree_flatten(state)>>
    /\ saved' = <<state>>
    /\ restored' = <<>>
    /\ last' = [op |-> "tree_flatten", outcome |-> "ok", args |-> <<>>]
    /\ ret' = <<>>
    /\ UNCHANGED <<cfg, state, consumed, used, evals>>

\* TrainingState.tree_unflatten(aux, children)
CallTreeUnflatten ==
    /\ flat # <<>>
    /\ restored' = <<tree_unflatten(flat[1].aux, flat[1].children)>>
    /\ last' = [op |-> "tree_unflatten", outcome |-> "ok", args |-> <<>>]
    /\ ret' = restored'
    /\ UNCHANGED <<cfg, state, consumed, used, evals, flat, saved>>

Next ==
    \/ CallInit
    \/ CallUpdate
    \/ CallStep

Spec == Init /\ [][Next]_vars

(***************************************************************************)
(* tree_flatten and tree_unflatten are pure functions of a TrainingState:  *)
(* they are applied to every value of the NamedTuple within the bounds.    *)
(***************************************************************************)
Keys == UNION {{PRNGKey(seed)} \cup Range(split(PRNGKey(seed), MaxBatch + 1)) :
                  seed \in Seeds}

TrainingStates ==
    UNION {[params : [D -> ParamVals],
            target_params : [D -> ParamVals],
            opt_state : {[k \in {} |-> 0], [k \in D |-> 0]},
            rng : Keys,
            tx : Optims,
            target_update_var : TargetUpdateVars,
            step : 0..MaxStep] : D \in ParamDomains}

InitTree ==
    /\ cfg \in {c \in Configs : c.drq_batch_size = 1 /\ c.ensemble_size = 1
                                   /\ c.num_critics = 1}
    /\ state \in TrainingStates
    /\ last = [op |-> "cls", outcome |-> "ok", args |-> <<>>]
    /\ ret = <<state>>
    /\ consumed = [keys |-> <<>>, returned |-> FALSE]
    /\ used = {}
    /\ evals = <<>>
    /\ flat = <<>>
    /\ saved = <<>>
    /\ restored = <<>>

NextTree ==
    \/ CallTreeFlatten
    \/ CallTreeUnflatten

SpecTree == InitTree /\ [][NextTree]_vars

(***************************************************************************)
(* The claims.                                                             *)
(***************************************************************************)
Self == last.args[1]

NoDup(seq) == \A i, j \in DOMAIN seq : seq[i] = seq[j] => i = j

\* C1: in periodic mode with period N, each call of update on a state with
\* counter step returns a state whose target_params are the new live params
\* if (step + 1) mod N = 0 and the input's target_params otherwise.
C1_PeriodicSync ==
    (/\ last.op = "update"
     /\ isinstance_int(Self.target_update_var)
     /\ ValidVar(Self.target_update_var))
    => /\ last.outcome = "ok"
       /\ ret[1].target_params =
            IF (Self.step + 1) % Self.target_update_var.val = 0
            THEN ret[1].params
            ELSE Self.target_params

\* C2: for every state init produced from a valid configuration, integer or
\* float, and every gradient, update completes and returns a new state.
C2_UpdateReturns ==
    (/\ last.op = "update"
     /\ ~Invalid(Self.params, Self.target_update_var))
    => /\ last.outcome = "ok"
       /\ Len(ret) = 1

\* C3: in exponential mode with rate rho, every call of update returns a
\* state with target_params = rho * new live params + (1 - rho) * old
\* target_params, elementwise, whatever the step counter.
C3_SoftSync ==
    (/\ last.op = "update"
     /\ ~isinstance_int(Self.target_update_var)
     /\ ValidVar(Self.target_update_var))
    => /\ last.outcome = "ok"
       /\ ret[1].target_params =
            [k \in DOMAIN ret[1].params |->
                (Self.target_update_var.val * ret[1].params[k]
                 + (RhoDen - Self.target_update_var.val)
                       * Self.target_params[k]) \div RhoDen]

\* C5: init fails with a configuration error and produces no state when
\* initial_params is empty, rho is outside (0, 1] or N <= 0.
C5_InitRejectsInvalid ==
    (/\ last.op = "init"
     /\ Invalid(last.args[2], last.args[4]))
    => /\ last.outcome = "ConfigError"
       /\ ret = <<>>

\* C6: a step call chained from init returns a state; the cursors it
\* consumed are pairwise distinct, the cursor of the returned state is none
\* of them, and none of them was consumed by an earlier call of the chain.
C6_NoCursorReuse ==
    (/\ last.op = "step"
     /\ cfg.num_critics <= cfg.ensemble_size)
    => /\ last.outcome = "ok"
       /\ NoDup(consumed.keys)
       /\ ret[1].rng \notin Range(consumed.keys)
       /\ Range(consumed.keys) \cap used = {}

\* C7: update returns a state whose rng, tx and target_update_var are the
\* input's, and its result does not depend on the input's rng.
C7_UpdateFrame ==
    last.op = "update"
    => /\ last.outcome = "ok"
       /\ ret[1].rng = Self.rng
       /\ ret[1].tx = Self.tx
       /\ ret[1].target_update_var = Self.target_update_var
       /\ \A key \in Keys :
            LET other == update([Self EXCEPT !.rng = key], last.args[2])
            IN /\ other.outcome = "ok"
               /\ [other.out[1] EXCEPT !.rng = Self.rng] = ret[1]

\* C8: tree_unflatten(tree_flatten(s)) has every field equal to the same
\* field of s, and update on the restored copy does what it does on s.
C8_RoundTrip ==
    restored # <<>>
    => /\ \A f \in Fields : restored[1][f] = saved[1][f]
       /\ \A grads \in Grads(saved[1].params) :
            update(restored[1], grads) = update(saved[1], grads)

\* C8 witness: a state with distinct live and target params and a positive
\* step counter has been flattened and unflattened.
C8_Witness ==
    /\ last.op = "tree_unflatten"
    /\ restored # <<>>
    /\ saved[1].params # saved[1].target_params
    /\ saved[1].step > 0
    /\ Len(saved[1].rng) > 1

\* The cursors one step call consumes are pairwise distinct and the cursor
\* it carries forward, rngs[-1], is none of them.
StepCursorsDistinct ==
    last.op = "step"
    => /\ NoDup(consumed.keys)
       /\ LET B == cfg.drq_batch_size
          IN split(Self.rng, B + 1)[B + 1] \notin Range(consumed.keys)

\* C9: in the per-sample loss the current observation is encoded with live
\* params and the next with target params, the policy uses live params, the
\* bootstrap target the target-param critic, the critic prediction the
\* live-param critic, and the actor loss the live-param critic.
C9_ParamSnapshots ==
    last.op = "step"
    => \A b \in DOMAIN evals :
          /\ evals[b].s_tm1.arg = "params"
          /\ evals[b].s_t.arg = "target_params"
          /\ evals[b].policy_t.arg = "params"
          /\ evals[b].min_q_t.arg = "target_params"
          /\ evals[b].q_tm1.arg = "params"
          /\ evals[b].actor_q.arg = "params"

\* C10: the per-sample joint loss step differentiates is a scalar for every
\* ensemble size >= 1, so step completes without a shape error.
C10_ScalarLoss ==
    (/\ last.op = "step"
     /\ cfg.num_critics <= cfg.ensemble_size)
    => /\ \A b \in DOMAIN evals : evals[b].loss_shape = Scalar
       /\ last.outcome # "TypeError"

====
